---- MODULE Spec2Model ----
(***************************************************************************)
(* Multilingual flash-card generator API (backend/server.py): the deck     *)
(* collection, the request handlers, the reply parser of                   *)
(* generate_flash_cards and the export renderers.                          *)
(*                                                                         *)
(* A Python str is a sequence of lexical units.  Most units are single     *)
(* characters ("[", "]", ",", "\n", " ", "-", "a", "7"); "*" stands for    *)
(* the bullet character U+2022; "null", "true" and "\"s\"" are a JSON      *)
(* literal and a quoted one-character JSON string; "{fb1}", "{fb2}",       *)
(* "{}" and "{fn}" are JSON objects written without brackets, line breaks  *)
(* or leading bullet characters.                                           *)
(***************************************************************************)
EXTENDS Integers, Sequences, FiniteSets, TLC

VARIABLES
  storage,   \* db.flash_decks: the stored deck documents, in insertion order
  nextId,    \* the next value uuid.uuid4() hands out (never reused)
  resp,      \* the response of the last handled request
  deleted,   \* history: ids for which delete_deck answered 200
  req        \* parser specification: the generate-cards request under test

vars == <<storage, nextId, resp, deleted, req>>

----------------------------------------------------------------------------
(* Bounds of the model *)

MaxLen == 4        \* longest free-text reply, in lexical units
MaxElems == 2      \* most elements of a JSON array in a reply
MaxCount == 2      \* largest count a request carries
MaxGen == 2        \* generate-cards requests served in one run
MaxExportIds == 2  \* most deck ids an export request names
MaxBulkGen == 2    \* generate-cards requests served on top of a large collection

----------------------------------------------------------------------------
(* Python str and list primitives *)

Min(a, b) == IF a <= b THEN a ELSE b
Max(a, b) == IF a >= b THEN a ELSE b

Whitespace == {" ", "\n"}

\* str.lstrip(chars): drop every leading unit that is in chars
RECURSIVE lstrip(_, _)
lstrip(s, chars) ==
  IF s # <<>> /\ Head(s) \in chars THEN lstrip(Tail(s), chars) ELSE s

\* str.rstrip(chars)
RECURSIVE rstrip(_, _)
rstrip(s, chars) ==
  IF s # <<>> /\ s[Len(s)] \in chars
    THEN rstrip(SubSeq(s, 1, Len(s) - 1), chars) ELSE s

\* str.strip(): whitespace off both ends
strip(s) == rstrip(lstrip(s, Whitespace), Whitespace)

\* str.find(c): 0-based index of the first c, -1 when there is none
find(s, c) ==
  IF \E i \in 1..Len(s) : s[i] = c
    THEN (CHOOSE i \in 1..Len(s) : s[i] = c /\ \A j \in 1..(i - 1) : s[j] # c) - 1
    ELSE -1

\* str.rfind(c): 0-based index of the last c, -1 when there is none
rfind(s, c) ==
  IF \E i \in 1..Len(s) : s[i] = c
    THEN (CHOOSE i \in 1..Len(s) : s[i] = c /\ \A j \in (i + 1)..Len(s) : s[j] # c) - 1
    ELSE -1

\* s[a:b] for a, b >= 0
PySlice(s, a, b) == SubSeq(s, a + 1, Min(b, Len(s)))

\* s[:n] for any integer n (a negative n counts from the end)
PyPrefix(s, n) ==
  IF n >= 0 THEN SubSeq(s, 1, Min(n, Len(s)))
            ELSE SubSeq(s, 1, Max(Len(s) + n, 0))

\* str.split('\n'): always at least one piece
RECURSIVE split(_)
split(s) ==
  LET i == find(s, "\n") IN
    IF i = -1 THEN <<s>>
    ELSE <<SubSeq(s, 1, i)>> \o split(SubSeq(s, i + 2, Len(s)))

----------------------------------------------------------------------------
(* json.loads over lexical units *)

ObjectUnits == {"{fb1}", "{fb2}", "{}", "{fn}"}
ScalarUnits == {"\"s\"", "true", "null"}

\* The members of each object unit; a value is a str (kind "str") or null.
ObjectMembers(u) ==
  CASE u = "{fb1}" -> [front |-> [kind |-> "str", text |-> <<"-", " ", "a">>],
                       back  |-> [kind |-> "str", text |-> <<"a", " ">>]]
    [] u = "{fb2}" -> [front |-> [kind |-> "str", text |-> <<"*", "a">>],
                       back  |-> [kind |-> "str", text |-> <<"a", "\n", "a">>]]
    [] u = "{fn}"  -> [front |-> [kind |-> "null", text |-> <<>>],
                       back  |-> [kind |-> "str", text |-> <<"a">>]]
    [] OTHER       -> [none \in {} |-> 0]

JsonFail == [ok |-> FALSE, val |-> [t |-> "none", unit |-> "", items |-> <<>>], next |-> 0]

JsonOk(t, unit, items, next) ==
  [ok |-> TRUE, val |-> [t |-> t, unit |-> unit, items |-> items], next |-> next]

RECURSIVE SkipWs(_, _)
SkipWs(s, i) ==
  IF i <= Len(s) /\ s[i] \in Whitespace THEN SkipWs(s, i + 1) ELSE i

RECURSIVE SkipDigits(_, _)
SkipDigits(s, i) ==
  IF i <= Len(s) /\ s[i] = "7" THEN SkipDigits(s, i + 1) ELSE i

\* One JSON value starting at or after position i (1-based).
RECURSIVE ParseValue(_, _)
RECURSIVE ParseElems(_, _, _)
ParseValue(s, i) ==
  LET j == SkipWs(s, i) IN
    IF j > Len(s) THEN JsonFail
    ELSE IF s[j] \in ObjectUnits THEN JsonOk("obj", s[j], <<>>, j + 1)
    ELSE IF s[j] = "\"s\"" THEN JsonOk("str", s[j], <<>>, j + 1)
    ELSE IF s[j] = "true" THEN JsonOk("bool", s[j], <<>>, j + 1)
    ELSE IF s[j] = "null" THEN JsonOk("null", s[j], <<>>, j + 1)
    ELSE IF s[j] = "7" THEN JsonOk("num", "7", <<>>, SkipDigits(s, j))
    ELSE IF s[j] = "-" /\ j + 1 <= Len(s) /\ s[j + 1] = "7"
      THEN JsonOk("num", "-7", <<>>, SkipDigits(s, j + 1))
    ELSE IF s[j] = "["
      THEN LET k == SkipWs(s, j + 1) IN
             IF k <= Len(s) /\ s[k] = "]" THEN JsonOk("arr", "", <<>>, k + 1)
             ELSE ParseElems(s, j + 1, <<>>)
    ELSE JsonFail

\* The elements of an array after "[" or ",": value, then "," or "]".
ParseElems(s, i, acc) ==
  LET r == ParseValue(s, i) IN
    IF ~r.ok THEN JsonFail
    ELSE LET k == SkipWs(s, r.next) IN
      IF k > Len(s) THEN JsonFail
      ELSE IF s[k] = "]" THEN JsonOk("arr", "", Append(acc, r.val), k + 1)
      ELSE IF s[k] = "," THEN ParseElems(s, k + 1, Append(acc, r.val))
      ELSE JsonFail

\* json.loads(s): the value, or ok = FALSE for json.JSONDecodeError
json_loads(s) ==
  LET r == ParseValue(s, 1) IN
    IF r.ok /\ SkipWs(s, r.next) > Len(s) THEN r ELSE JsonFail

----------------------------------------------------------------------------
(* generate_flash_cards: the reply parser (server.py 177-211) *)

\* the bullet character left in place
clean_line_keeps_bullet(line) == lstrip(strip(line), {"-", " "})

\* lines 197-198: line.strip().lstrip('- ').lstrip('\u2022 ')
clean_line(line) == lstrip(lstrip(strip(line), {"-", " "}), {"*", " "})

\* lines 195-200: for i in range(0, stop, 2), from i on
RECURSIVE line_cards(_, _, _, _)
line_cards(lines, i, stop, acc) ==
  IF i >= stop THEN acc
  ELSE IF i + 1 < Len(lines)
    THEN LET front == clean_line(lines[i + 1])
             back  == clean_line(lines[i + 2])
         IN line_cards(lines, i + 2, stop,
              IF front # <<>> /\ back # <<>>
                THEN Append(acc, [t |-> "pair", unit |-> "", items |-> <<front, back>>])
                ELSE acc)
    ELSE line_cards(lines, i + 2, stop, acc)

\* the whole reply decoded, never the slice between the brackets
decode_reply_whole(content) == json_loads(content)

\* lines 181-190: the try block; ok = FALSE for json.JSONDecodeError
decode_reply(content) ==
  LET start_idx == find(content, "[")
      end_idx   == rfind(content, "]") + 1
  IN IF start_idx # -1 /\ end_idx # 0
       THEN json_loads(PySlice(content, start_idx, end_idx))
       ELSE json_loads(content)

\* lines 191-200: the except json.JSONDecodeError block
fallback_cards(content, count) ==
  LET lines == split(content)
  IN [t |-> "arr", unit |-> "",
      items |-> line_cards(lines, 0, Min(Len(lines), count * 2), <<>>)]

\* lines 181-200: cards_data
extract_cards_data(content, count) ==
  LET r == decode_reply(content)
  IN IF r.ok THEN r.val ELSE fallback_cards(content, count)

\* line 204: cards_data[:request.count]; ok = FALSE for the TypeError of a
\* dict, number, bool or None.  A decoded str slices to its characters.
slice_cards_data(cards_data, count) ==
  IF cards_data.t = "arr" THEN [ok |-> TRUE, items |-> PyPrefix(cards_data.items, count)]
  ELSE IF cards_data.t = "str"
    THEN [ok |-> TRUE,
          items |-> PyPrefix(<<[t |-> "char", unit |-> "s", items |-> <<>>]>>, count)]
  ELSE [ok |-> FALSE, items |-> <<>>]

\* lines 206-207: card_data.get(key, ""); ok = FALSE for the AttributeError of a
\* card_data that is no dict
card_field(card_data, key) ==
  IF card_data.t = "pair"
    THEN [ok |-> TRUE, kind |-> "str",
          text |-> IF key = "front" THEN card_data.items[1] ELSE card_data.items[2]]
  ELSE IF card_data.t = "obj"
    THEN LET m == ObjectMembers(card_data.unit)
         IN IF key \in DOMAIN m
              THEN [ok |-> TRUE, kind |-> m[key].kind, text |-> m[key].text]
              ELSE [ok |-> TRUE, kind |-> "str", text |-> <<>>]
  ELSE [ok |-> FALSE, kind |-> "none", text |-> <<>>]

\* lines 205-210: FlashCard(...); ok = FALSE when .get or the model's str
\* validation raises
make_card(card_data, topic, language, card_id, now) ==
  LET f == card_field(card_data, "front")
      b == card_field(card_data, "back")
  IN [ok |-> f.ok /\ b.ok /\ f.kind = "str" /\ b.kind = "str",
      card |-> [id |-> card_id, front |-> f.text, back |-> b.text,
                topic |-> topic, language |-> language, created_at |-> now]]

\* lines 203-211: the loop building cards; ok = FALSE when it raises
build_cards(cards_data, count, topic, language, deck_id, now) ==
  LET sl == slice_cards_data(cards_data, count)
      made == [i \in 1..Len(sl.items) |->
                 make_card(sl.items[i], topic, language, <<deck_id, i>>, now)]
  IN [ok |-> sl.ok /\ \A i \in 1..Len(made) : made[i].ok,
      cards |-> [i \in 1..Len(made) |-> made[i].card]]

----------------------------------------------------------------------------
(* The document store: db.flash_decks *)

ListLimit == 1000

\* insert_one(doc)
insert_one(coll, doc) == Append(coll, doc)

\* find_one({"id": deck_id}): the first matching document, or None
find_one(coll, deck_id) ==
  IF \E i \in 1..Len(coll) : coll[i].id = deck_id
    THEN [found |-> TRUE,
          doc |-> coll[CHOOSE i \in 1..Len(coll) :
                         coll[i].id = deck_id /\ \A j \in 1..(i - 1) : coll[j].id # deck_id]]
    ELSE [found |-> FALSE, doc |-> <<>>]

\* delete_one that reports the match and removes nothing
delete_one_keeps(coll, deck_id) ==
  [deleted_count |-> IF \E i \in 1..Len(coll) : coll[i].id = deck_id THEN 1 ELSE 0,
   coll |-> coll]

\* delete_one({"id": deck_id}): removes the first matching document
delete_one(coll, deck_id) ==
  IF \E i \in 1..Len(coll) : coll[i].id = deck_id
    THEN LET k == CHOOSE i \in 1..Len(coll) :
                    coll[i].id = deck_id /\ \A j \in 1..(i - 1) : coll[j].id # deck_id
         IN [deleted_count |-> 1,
             coll |-> SubSeq(coll, 1, k - 1) \o SubSeq(coll, k + 1, Len(coll))]
    ELSE [deleted_count |-> 0, coll |-> coll]

\* find().to_list(length): at most length documents, in natural order
find_to_list(coll, length) == SubSeq(coll, 1, Min(Len(coll), length))

----------------------------------------------------------------------------
(* generate_flash_cards (server.py 132-231) *)

\* str.title() on the languages the model uses
title(language) ==
  CASE language = "english" -> "English"
    [] language = "HINDI"   -> "Hindi"
    [] OTHER                -> language

\* lines 214-219: FlashCardDeck(...)
make_deck(request, cards, deck_id, now) ==
  [id |-> deck_id,
   name |-> <<request.topic, " - ", title(request.language)>>,
   topic |-> request.topic,
   language |-> request.language,
   cards |-> cards,
   created_at |-> now]

\* the try block with the document written although insert_one raises
generate_try_stores_first(request, llm, reply, insert_ok, coll, deck_id) ==
  LET content == strip(reply)
      cards_data == extract_cards_data(content, request.count)
      built == build_cards(cards_data, request.count, request.topic,
                           request.language, deck_id, deck_id)
      deck == make_deck(request, built.cards, deck_id, deck_id)
  IN IF llm # "ok"
       THEN [raised |-> TRUE, cause |-> "llm", made_deck |-> FALSE, coll |-> coll, deck |-> <<>>]
     ELSE IF ~built.ok
       THEN [raised |-> TRUE, cause |-> "cards", made_deck |-> FALSE, coll |-> coll, deck |-> <<>>]
     ELSE [raised |-> ~insert_ok, cause |-> IF insert_ok THEN "" ELSE "insert",
           made_deck |-> TRUE, coll |-> insert_one(coll, deck),
           deck |-> IF insert_ok THEN deck ELSE <<>>]

\* lines 135-228, the try block.  llm is the outcome of the chat-completion
\* call ("ok": reply is the message content; "raise": the call raises;
\* "no_content": the content is None, so .strip() raises); insert_ok is whether
\* insert_one returns.  raised = TRUE when an exception leaves the block.
generate_try(request, llm, reply, insert_ok, coll, deck_id) ==
  LET content == strip(reply)
      cards_data == extract_cards_data(content, request.count)
      built == build_cards(cards_data, request.count, request.topic,
                           request.language, deck_id, deck_id)
      deck == make_deck(request, built.cards, deck_id, deck_id)
  IN IF llm # "ok"
       THEN [raised |-> TRUE, cause |-> "llm", made_deck |-> FALSE, coll |-> coll, deck |-> <<>>]
     ELSE IF ~built.ok
       THEN [raised |-> TRUE, cause |-> "cards", made_deck |-> FALSE, coll |-> coll, deck |-> <<>>]
     ELSE IF ~insert_ok
       THEN [raised |-> TRUE, cause |-> "insert", made_deck |-> TRUE, coll |-> coll, deck |-> <<>>]
     ELSE [raised |-> FALSE, cause |-> "", made_deck |-> TRUE,
           coll |-> insert_one(coll, deck), deck |-> deck]

\* lines 224-231: the response, or HTTPException(500) from the except block
generate_response(request, llm, reply, r) ==
  IF r.raised
    THEN [op |-> "generate", status |-> 500, request |-> request, llm |-> llm,
          reply |-> reply, success |-> FALSE, deck |-> <<>>,
          detail |-> <<"Error generating cards: ", r.cause>>]
    ELSE [op |-> "generate", status |-> 200, request |-> request, llm |-> llm,
          reply |-> reply, success |-> TRUE, deck |-> r.deck,
          detail |-> <<"Successfully generated ", Len(r.deck.cards), " flash cards">>]

generate_flash_cards(request, llm, reply, insert_ok) ==
  LET r == generate_try(request, llm, reply, insert_ok, storage, nextId)
  IN /\ storage' = r.coll
     /\ nextId' = IF r.made_deck THEN nextId + 1 ELSE nextId
     /\ resp' = generate_response(request, llm, reply, r)
     /\ UNCHANGED <<deleted, req>>

----------------------------------------------------------------------------
(* get_all_decks, get_deck, delete_deck (server.py 233-253) *)

\* lines 236-237
get_all_decks_response(coll) ==
  [op |-> "get_all_decks", status |-> 200, decks |-> find_to_list(coll, ListLimit)]

get_all_decks ==
  /\ resp' = get_all_decks_response(storage)
  /\ UNCHANGED <<storage, nextId, deleted, req>>

\* lines 242-245
get_deck_response(coll, deck_id) ==
  LET deck == find_one(coll, deck_id)
  IN IF ~deck.found
       THEN [op |-> "get_deck", deck_id |-> deck_id, status |-> 404,
             deck |-> <<>>, detail |-> "Deck not found"]
       ELSE [op |-> "get_deck", deck_id |-> deck_id, status |-> 200,
             deck |-> deck.doc, detail |-> ""]

get_deck(deck_id) ==
  /\ resp' = get_deck_response(storage, deck_id)
  /\ UNCHANGED <<storage, nextId, deleted, req>>

\* lines 251-253
delete_deck_response(result, deck_id) ==
  IF result.deleted_count = 0
    THEN [op |-> "delete_deck", deck_id |-> deck_id, status |-> 404,
          detail |-> "Deck not found"]
    ELSE [op |-> "delete_deck", deck_id |-> deck_id, status |-> 200,
          detail |-> "Deck deleted successfully"]

delete_deck(deck_id) ==
  LET result == delete_one(storage, deck_id)
  IN /\ storage' = result.coll
     /\ resp' = delete_deck_response(result, deck_id)
     /\ deleted' = IF resp'.status = 200 THEN deleted \cup {deck_id} ELSE deleted
     /\ UNCHANGED <<nextId, req>>

----------------------------------------------------------------------------
(* export_decks and the renderers (server.py 255-384) *)

\* str.lower() on the format values the model uses
lower(format) ==
  CASE format = "CSV"  -> "csv"
    [] format = "Json" -> "json"
    [] OTHER           -> format

\* lines 263-266: one find_one per requested id, keeping the documents found
RECURSIVE find_each(_, _)
find_each(deck_ids, coll) ==
  IF deck_ids = <<>> THEN <<>>
  ELSE LET deck == find_one(coll, Head(deck_ids))
       IN (IF deck.found THEN <<deck.doc>> ELSE <<>>) \o find_each(Tail(deck_ids), coll)

\* lines 260-269: decks_data
resolve_decks(deck_ids, coll) ==
  IF deck_ids # <<>> THEN find_each(deck_ids, coll)
                     ELSE find_to_list(coll, ListLimit)

\* sum(len(deck.cards) for deck in decks), summed by halves
RECURSIVE total_cards(_)
total_cards(decks) ==
  IF decks = <<>> THEN 0
  ELSE IF Len(decks) = 1 THEN Len(decks[1].cards)
  ELSE LET h == Len(decks) \div 2
       IN total_cards(SubSeq(decks, 1, h)) + total_cards(SubSeq(decks, h + 1, Len(decks)))

\* lines 289-304
export_to_json(decks) ==
  [op |-> "export", status |-> 200, media_type |-> "application/json",
   filename |-> <<"flashcards_export_", ".json">>,
   body |-> [total_decks |-> Len(decks), total_cards |-> total_cards(decks),
             decks |-> decks]]

\* line 323: card.created_at.strftime('%Y-%m-%d %H:%M:%S')
strftime(created_at) == <<"%Y-%m-%d %H:%M:%S", created_at>>

CsvHeader == <<"Deck Name", "Topic", "Language", "Card Front", "Card Back", "Created Date">>

\* lines 316-324: the rows of one deck
csv_deck_rows(deck) ==
  [i \in 1..Len(deck.cards) |->
     <<deck.name, deck.topic, deck.language,
       deck.cards[i].front, deck.cards[i].back, strftime(deck.cards[i].created_at)>>]

\* the rows of the first deck alone
csv_rows_first_deck(decks) ==
  IF decks = <<>> THEN <<>>
  ELSE [i \in 1..Len(decks[1].cards) |->
          <<decks[1].name, decks[1].topic, decks[1].language,
            decks[1].cards[i].front, decks[1].cards[i].back,
            <<"%Y-%m-%d %H:%M:%S", decks[1].cards[i].created_at>> >>]

\* lines 315-324: the rows of every deck, in deck order (joined by halves)
RECURSIVE csv_rows(_)
csv_rows(decks) ==
  IF decks = <<>> THEN <<>>
  ELSE IF Len(decks) = 1 THEN csv_deck_rows(decks[1])
  ELSE LET h == Len(decks) \div 2
       IN csv_rows(SubSeq(decks, 1, h)) \o csv_rows(SubSeq(decks, h + 1, Len(decks)))

\* lines 306-333: body is the sequence of rows written
export_to_csv(decks) ==
  [op |-> "export", status |-> 200, media_type |-> "text/csv",
   filename |-> <<"flashcards_export_", ".csv">>,
   body |-> <<CsvHeader>> \o csv_rows(decks)]

\* lines 368-372: the flowables of one deck's cards
pdf_card_blocks(deck) ==
  [i \in 1..(4 * Len(deck.cards)) |->
     LET c == (i - 1) \div 4 + 1 IN
       CASE i % 4 = 1 -> <<"Heading2", "Card ", c>>
         [] i % 4 = 2 -> <<"Front: ", deck.cards[c].front>>
         [] i % 4 = 3 -> <<"Back: ", deck.cards[c].back>>
         [] OTHER     -> <<"Spacer", "", 8>>]

\* lines 357-372: the flowables of decks[deck_idx ..], deck_idx 0-based
RECURSIVE pdf_deck_blocks(_, _)
pdf_deck_blocks(decks, deck_idx) ==
  IF deck_idx >= Len(decks) THEN <<>>
  ELSE LET deck == decks[deck_idx + 1] IN
    (IF deck_idx > 0 THEN << <<"PageBreak", "", 0>> >> ELSE <<>>)
    \o << <<"Deck: ", deck.name, 0>>,
          <<"Topic: ", deck.topic, title(deck.language)>>,
          <<"Cards: ", "", Len(deck.cards)>>,
          <<"Spacer", "", 12>> >>
    \o pdf_card_blocks(deck)
    \o pdf_deck_blocks(decks, deck_idx + 1)

\* lines 335-384: body is the story handed to doc.build; build_ok = FALSE when
\* doc.build raises
export_to_pdf(decks, build_ok) ==
  IF ~build_ok THEN [raised |-> TRUE, http |-> 0, cause |-> "render"]
  ELSE [op |-> "export", status |-> 200, media_type |-> "application/pdf",
        filename |-> <<"flashcards_export_", ".pdf">>,
        body |-> << <<"Flash Cards Export", "", 0>>,
                    <<"Total Decks: ", "", Len(decks)>>,
                    <<"Total Cards: ", "", total_cards(decks)>>,
                    <<"Spacer", "", 20>> >>
                 \o pdf_deck_blocks(decks, 0)]

\* lines 271-284, the try block once decks_data is read: a response, or the
\* exception that leaves the block (http is the status of an HTTPException, 0
\* for any other exception)
export_render(request, decks, build_ok) ==
  IF decks = <<>>
    THEN [raised |-> TRUE, http |-> 404, cause |-> "No decks found to export"]
  ELSE IF lower(request.format) = "json" THEN export_to_json(decks)
  ELSE IF lower(request.format) = "csv" THEN export_to_csv(decks)
  ELSE IF lower(request.format) = "pdf" THEN export_to_pdf(decks, build_ok)
  ELSE [raised |-> TRUE, http |-> 400, cause |-> "Unsupported export format"]

\* lines 258-284, the try block with every read made on one state of the
\* collection
export_try(request, coll, build_ok) ==
  export_render(request, resolve_decks(request.deck_ids, coll), build_ok)

\* lines 286-287: except Exception catches whatever left the try block,
\* HTTPException included, and raises HTTPException(500)
export_response(request, r) ==
  IF "raised" \in DOMAIN r
    THEN [op |-> "export", status |-> 500, request |-> request,
          media_type |-> "application/json", body |-> <<>>,
          detail |-> <<"Export failed: ", r.cause>>]
    ELSE [op |-> "export", status |-> 200, request |-> request,
          media_type |-> r.media_type, filename |-> r.filename, body |-> r.body,
          detail |-> <<>>]

export_decks(request, build_ok) ==
  /\ resp' = export_response(request, export_try(request, storage, build_ok))
  /\ UNCHANGED <<storage, nextId, deleted, req>>

----------------------------------------------------------------------------
(* test_sutra_api (server.py 98-130) *)

\* line 103: not sutra_api_key, for request.get("api_key") of the body
no_api_key(body) ==
  \/ "api_key" \notin DOMAIN body
  \/ body.api_key.kind = "null"
  \/ body.api_key.text = ""

\* lines 101-125, the try block: the returned dict, or the exception raised
test_sutra_try(body, llm) ==
  IF no_api_key(body)
    THEN [raised |-> TRUE, http |-> 400, cause |-> "400: API key is required"]
  ELSE IF llm # "ok"
    THEN [raised |-> TRUE, http |-> 0, cause |-> llm]
  ELSE [raised |-> FALSE, http |-> 0, cause |-> ""]

\* the except block letting an HTTPException through with its own status
test_sutra_response_reraise(body, llm, r) ==
  [op |-> "test_sutra", status |-> IF r.raised /\ r.http # 0 THEN r.http ELSE 200,
   body |-> body, llm |-> llm, success |-> ~r.raised,
   message |-> <<"Sutra API connection", r.cause>>]

\* lines 121-130: the dict returned from the try block or from except Exception
test_sutra_response(body, llm, r) ==
  IF r.raised
    THEN [op |-> "test_sutra", status |-> 200, body |-> body, llm |-> llm,
          success |-> FALSE,
          message |-> <<"Sutra API connection failed: ", r.cause>>]
    ELSE [op |-> "test_sutra", status |-> 200, body |-> body, llm |-> llm,
          success |-> TRUE,
          message |-> <<"Sutra API connection successful", "">>]

test_sutra_api(body, llm) ==
  /\ resp' = test_sutra_response(body, llm, test_sutra_try(body, llm))
  /\ UNCHANGED <<storage, nextId, deleted, req>>

----------------------------------------------------------------------------
(* Requests and environment outcomes the model draws from *)

\* every sequence over S of length at most n
SeqsUpTo(S, n) == UNION {[1..k -> S] : k \in 0..n}

Counts == {-1} \cup (0..MaxCount)

LlmOutcomes == {"ok", "raise", "no_content"}

FreeUnits == {"a", "\n", " ", "-", "*", "[", "]"}
FreeReplies == SeqsUpTo(FreeUnits, MaxLen)

ElemUnits == ObjectUnits \cup {"7"}

\* "[" e1 "," e2 ... "]"
RECURSIVE join_elems(_)
join_elems(elems) ==
  IF elems = <<>> THEN <<>>
  ELSE IF Len(elems) = 1 THEN elems
  ELSE <<Head(elems), ",">> \o join_elems(Tail(elems))

ArrayText(elems) == <<"[">> \o join_elems(elems) \o <<"]">>

JsonBodies ==
  {ArrayText(e) : e \in SeqsUpTo(ElemUnits, MaxElems)}
    \cup {<<u>> : u \in ObjectUnits \cup ScalarUnits \cup {"7"}}

Affixes == {<<>>} \cup {<<u>> : u \in {"a", "[", "]", "\n"}}

JsonReplies == {pre \o body \o suf : pre \in Affixes, body \in JsonBodies, suf \in Affixes}

Replies == FreeReplies \cup JsonReplies

GenRequest(count, language) == [topic |-> "Mars", language |-> language, count |-> count]

\* the generate-cards requests of the parser specification
ParseInputs ==
  {[kind |-> "generate", request |-> GenRequest(c, "english"), llm |-> "ok", reply |-> r] :
     c \in Counts, r \in Replies}
  \cup {[kind |-> "generate", request |-> GenRequest(c, "english"), llm |-> l, reply |-> <<>>] :
     c \in Counts, l \in LlmOutcomes \ {"ok"}}

\* the generate-cards requests of the API specification
ApiInputs ==
  {[kind |-> "generate", request |-> GenRequest(2, "english"), llm |-> "ok",
    reply |-> ArrayText(<<"{fb1}", "{fb2}">>)],
   [kind |-> "generate", request |-> GenRequest(1, "HINDI"), llm |-> "ok",
    reply |-> <<"-", " ", "a", "\n", "*", "a">>],
   [kind |-> "generate", request |-> GenRequest(1, "english"), llm |-> "ok",
    reply |-> <<"{fb1}">>],
   [kind |-> "generate", request |-> GenRequest(1, "english"), llm |-> "raise",
    reply |-> <<>>]}

\* the ids requests name: every id a run can hand out (an id is unknown to the
\* collection before its deck is generated and after it is deleted)
IdUniverse == 1..MaxGen
Formats == {"json", "CSV", "pdf", "xml"}
ExportRequests ==
  {[deck_ids |-> ids, format |-> f] : ids \in SeqsUpTo(IdUniverse, MaxExportIds), f \in Formats}

SutraBodies ==
  {[none \in {} |-> 0],
   [api_key |-> [kind |-> "null", text |-> ""]],
   [api_key |-> [kind |-> "str", text |-> ""]],
   [api_key |-> [kind |-> "str", text |-> "sk-1"]]}
SutraOutcomes == {"ok", "raise", "no_choices"}

NoResp == [op |-> "none", status |-> 0]
NoReq == [kind |-> "none"]

----------------------------------------------------------------------------
(* The API: requests served one after another against the collection *)

Init ==
  /\ storage = <<>>
  /\ nextId = 1
  /\ resp = NoResp
  /\ deleted = {}
  /\ req = NoReq

Generate ==
  \E g \in ApiInputs, insert_ok \in BOOLEAN :
    /\ nextId <= MaxGen
    /\ generate_flash_cards(g.request, g.llm, g.reply, insert_ok)

GetAll == get_all_decks
GetOne == \E id \in IdUniverse : get_deck(id)
Delete == \E id \in IdUniverse : delete_deck(id)
Export == \E r \in ExportRequests : export_decks(r, TRUE)
ExportBuildFails ==
  \E r \in ExportRequests : lower(r.format) = "pdf" /\ export_decks(r, FALSE)
TestSutra == \E b \in SutraBodies, l \in SutraOutcomes : test_sutra_api(b, l)

Next ==
  Generate \/ GetAll \/ GetOne \/ Delete \/ Export \/ ExportBuildFails \/ TestSutra

Spec == Init /\ [][Next]_vars

----------------------------------------------------------------------------
(* The parser: one generate-cards request on an empty collection *)

InitParse ==
  /\ storage = <<>>
  /\ nextId = 1
  /\ resp = NoResp
  /\ deleted = {}
  /\ req \in ParseInputs

NextParse ==
  /\ resp.op = "none"
  /\ \E insert_ok \in BOOLEAN :
       generate_flash_cards(req.request, req.llm, req.reply, insert_ok)

SpecParse == InitParse /\ [][NextParse]_vars

----------------------------------------------------------------------------
(* A large collection: around ListLimit stored decks *)

\* a stored deck with no cards, as generation leaves for the reply "[]"
BulkDeck(i) == make_deck(GenRequest(0, "english"), <<>>, i, i)

BulkSizes == {0, ListLimit - 1, ListLimit}

InitBulk ==
  \E n \in BulkSizes :
    /\ storage = [i \in 1..n |-> BulkDeck(i)]
    /\ nextId = n + 1
    /\ resp = NoResp
    /\ deleted = {}
    /\ req = [kind |-> "bulk", base |-> n]

BulkGenerate ==
  /\ nextId <= req.base + MaxBulkGen
  /\ \E c \in {0, 1} :
       generate_flash_cards(GenRequest(c, "english"), "ok", ArrayText(<<"{fb1}">>), TRUE)

BulkDelete == \E id \in {1, ListLimit} : delete_deck(id)

BulkExport ==
  \E f \in {"json", "CSV"} : export_decks([deck_ids |-> <<>>, format |-> f], TRUE)

NextBulk == BulkGenerate \/ GetAll \/ BulkDelete \/ BulkExport

SpecBulk == InitBulk /\ [][NextBulk]_vars

----------------------------------------------------------------------------
(* Concurrent requests: export_decks is suspended at each await of a storage
   call (server.py 265, 269) and other requests run in between.  req holds
   the export request in flight: deck_ids[1..done] are looked up, decks_data
   holds the documents found, moments the states the collection went through
   since the request started. *)

\* the collection moves to coll while the request in flight is running
observe(r, coll) ==
  IF r.kind = "export" /\ r.pc = "lookup"
    THEN [r EXCEPT !.moments = @ \cup {coll}]
    ELSE r

\* every id a client can name was handed out in an earlier response
known(deck_ids) == \A i \in 1..Len(deck_ids) : deck_ids[i] < nextId

\* lines 255-262: the request arrives and runs up to its first await
export_decks_start(request) ==
  /\ req.kind = "none" \/ (req.kind = "export" /\ req.pc = "done")
  /\ known(request.deck_ids)
  /\ req' = [kind |-> "export", pc |-> "lookup", request |-> request, done |-> 0,
             decks_data |-> <<>>, moments |-> {storage}]
  /\ UNCHANGED <<storage, nextId, resp, deleted>>

\* lines 263-269: one awaited storage call, find_one for the next id or
\* find().to_list for an empty deck_ids; after the last one the handler runs
\* lines 271-287 without another await
export_decks_lookup ==
  /\ req.kind = "export"
  /\ req.pc = "lookup"
  /\ LET deck_ids == req.request.deck_ids
         deck == find_one(storage, deck_ids[req.done + 1])
         decks_data ==
           IF deck_ids = <<>> THEN find_to_list(storage, ListLimit)
           ELSE req.decks_data \o (IF deck.found THEN <<deck.doc>> ELSE <<>>)
         last == deck_ids = <<>> \/ req.done + 1 = Len(deck_ids)
     IN /\ req' = [req EXCEPT !.done = @ + 1,
                              !.decks_data = decks_data,
                              !.pc = IF last THEN "done" ELSE "lookup"]
        /\ resp' = IF last
                     THEN export_response(req.request,
                                          export_render(req.request, decks_data, TRUE))
                     ELSE resp
  /\ UNCHANGED <<storage, nextId, deleted>>

\* delete_deck (lines 247-253, one awaited storage call) beside the export
delete_deck_beside(deck_id) ==
  LET result == delete_one(storage, deck_id)
  IN /\ storage' = result.coll
     /\ resp' = delete_deck_response(result, deck_id)
     /\ deleted' = IF resp'.status = 200 THEN deleted \cup {deck_id} ELSE deleted
     /\ req' = observe(req, result.coll)
     /\ UNCHANGED nextId

\* generate_flash_cards (lines 132-231, one awaited storage call) beside the
\* export
generate_flash_cards_beside(request, llm, reply, insert_ok) ==
  LET r == generate_try(request, llm, reply, insert_ok, storage, nextId)
  IN /\ storage' = r.coll
     /\ nextId' = IF r.made_deck THEN nextId + 1 ELSE nextId
     /\ resp' = generate_response(request, llm, reply, r)
     /\ req' = observe(req, r.coll)
     /\ UNCHANGED deleted

ConcExportRequests ==
  {[deck_ids |-> ids, format |-> f] :
     ids \in SeqsUpTo(IdUniverse, MaxExportIds), f \in {"json", "CSV"}}

InitConc ==
  /\ storage = <<>>
  /\ nextId = 1
  /\ resp = NoResp
  /\ deleted = {}
  /\ req = NoReq

ConcExportStart == \E r \in ConcExportRequests : export_decks_start(r)
ConcExportLookup == export_decks_lookup
ConcDelete == \E id \in IdUniverse : delete_deck_beside(id)
ConcGenerate ==
  /\ nextId <= MaxGen
  /\ generate_flash_cards_beside(GenRequest(1, "english"), "ok",
                                 ArrayText(<<"{fb1}">>), TRUE)

NextConc == ConcExportStart \/ ConcExportLookup \/ ConcDelete \/ ConcGenerate

SpecConc == InitConc /\ [][NextConc]_vars

----------------------------------------------------------------------------
(* Properties: export_decks *)

StoredIds == {storage[i].id : i \in 1..Len(storage)}

\* the export request names no deck that is stored: deck_ids is empty and the
\* collection is empty, or deck_ids is non-empty and none of its ids is stored
NothingToExport(request) ==
  \/ request.deck_ids = <<>> /\ storage = <<>>
  \/ /\ request.deck_ids # <<>>
     /\ \A i \in 1..Len(request.deck_ids) : request.deck_ids[i] \notin StoredIds

\* C1: an export whose resolved set of decks is empty is answered 404 with no
\* file, for every format value.
C1_EmptyExportIs404 ==
  (resp.op = "export" /\ NothingToExport(resp.request))
    => (resp.status = 404 /\ resp.body = <<>>)

\* C2: an export with a format other than json, csv or pdf (compared
\* case-insensitively), when at least one deck resolves, is answered 400 and
\* never 500.
C2_UnknownFormatIs400 ==
  (/\ resp.op = "export"
   /\ ~NothingToExport(resp.request)
   /\ lower(resp.request.format) \notin {"json", "csv", "pdf"})
    => resp.status = 400

----------------------------------------------------------------------------
(* Properties: get_deck, delete_deck, get_all_decks *)

\* a get_deck or get_all_decks answered after the deck's successful delete
DeletedStaysGone ==
  /\ (resp.op = "get_deck" /\ resp.deck_id \in deleted) => resp.status = 404
  /\ resp.op = "get_all_decks" =>
       \A i \in 1..Len(resp.decks) : resp.decks[i].id \notin deleted

\* a delete_deck step: its answer against the collection before and after
DeleteStepRight ==
  resp'.op = "delete_deck" =>
    /\ resp'.status \in {200, 404}
    /\ resp'.deck_id \notin StoredIds => (resp'.status = 404 /\ storage' = storage)
    /\ resp'.status = 200 =>
         \A i \in 1..Len(storage') : storage'[i].id # resp'.deck_id

\* C3: after delete_deck(id) succeeds every later get_deck(id) is answered 404
\* and the deck is absent from get_all_decks; delete_deck of an id that is not
\* stored is answered 404, not an error of the server, and leaves the
\* collection unchanged.
C3_DeleteThenNotFound == []DeletedStaysGone /\ [][DeleteStepRight]_vars

\* a deck was generated and deleted, and a later get_deck of it answered 404
C3_Witness ==
  /\ resp.op = "get_deck"
  /\ resp.deck_id \in deleted
  /\ resp.status = 404
  /\ storage # <<>>

----------------------------------------------------------------------------
(* Properties: test_sutra_api *)

\* the request body carries no usable api_key
KeyMissingOrEmpty(body) ==
  \/ DOMAIN body = {}
  \/ body.api_key.kind = "null"
  \/ body.api_key.text = ""

\* C4: test_sutra_api always answers 200; when the api_key is missing or empty,
\* or the LLM call fails, the body carries success = false and a message.
C4_TestSutraAlways200 ==
  resp.op = "test_sutra" =>
    /\ resp.status = 200
    /\ (KeyMissingOrEmpty(resp.body) \/ resp.llm # "ok") =>
         (resp.success = FALSE /\ resp.message[1] # "" /\ resp.message[2] # "")
    /\ (~KeyMissingOrEmpty(resp.body) /\ resp.llm = "ok") => resp.success = TRUE

\* a request without api_key was answered 200 with success = false
C4_Witness ==
  /\ resp.op = "test_sutra"
  /\ DOMAIN resp.body = {}
  /\ resp.status = 200
  /\ resp.success = FALSE

----------------------------------------------------------------------------
(* Properties: generate_flash_cards and its reply parser *)

\* a generate-cards request whose LLM call returned text and whose insert into
\* the collection did not fail
Served ==
  /\ resp.op = "generate"
  /\ resp.llm = "ok"
  /\ ~(resp.status = 500 /\ resp.detail[2] = "insert")

\* v is a JSON array of objects that each have a str front and a str back
IsCardArray(v) ==
  /\ v.t = "arr"
  /\ \A i \in 1..Len(v.items) :
       /\ v.items[i].t = "obj"
       /\ LET m == ObjectMembers(v.items[i].unit)
          IN /\ {"front", "back"} \subseteq DOMAIN m
             /\ m.front.kind = "str"
             /\ m.back.kind = "str"

\* the deck's cards are the first n objects of the array v, values unchanged
CardsAreFirst(cards, v, n) ==
  /\ Len(cards) = n
  /\ \A i \in 1..n :
       /\ cards[i].front = ObjectMembers(v.items[i].unit).front.text
       /\ cards[i].back = ObjectMembers(v.items[i].unit).back.text

\* reply[a..b] is a well-formed JSON array of at least n card objects
ArrayAt(reply, a, b, n) ==
  LET r == json_loads(SubSeq(reply, a, b))
  IN reply[a] = "[" /\ reply[b] = "]" /\ r.ok /\ IsCardArray(r.val) /\ Len(r.val.items) >= n

\* C5: a generate-cards request that succeeds creates a deck of at most count
\* cards (of no card, when count is below 1), whatever the reply and whatever
\* integer count.
C5_AtMostCount ==
  (resp.op = "generate" /\ resp.status = 200)
    => Len(resp.deck.cards) <= Max(resp.request.count, 0)

\* C6 as stated: a reply that contains, anywhere, a well-formed JSON array of
\* at least N card objects yields with count = N exactly the first N objects.
C6_AnyEmbeddedArray ==
  (Served /\ resp.request.count >= 0) =>
    \A a \in 1..Len(resp.reply) : \A b \in a..Len(resp.reply) :
      ArrayAt(resp.reply, a, b, resp.request.count) =>
        /\ resp.status = 200
        /\ CardsAreFirst(resp.deck.cards, json_loads(SubSeq(resp.reply, a, b)).val,
                         resp.request.count)

\* C6 amended: the same, when no "[" precedes the array and no "]" follows it.
C6_ArrayBetweenOuterBrackets ==
  (Served /\ resp.request.count >= 0) =>
    \A a \in 1..Len(resp.reply) : \A b \in a..Len(resp.reply) :
      (/\ ArrayAt(resp.reply, a, b, resp.request.count)
       /\ \A i \in 1..(a - 1) : resp.reply[i] # "["
       /\ \A i \in (b + 1)..Len(resp.reply) : resp.reply[i] # "]")
        => /\ resp.status = 200
           /\ CardsAreFirst(resp.deck.cards, json_loads(SubSeq(resp.reply, a, b)).val,
                            resp.request.count)

\* text before an array of two card objects, count = 1: one card, the first
C6_Witness ==
  /\ Served
  /\ resp.request.count = 1
  /\ resp.reply = <<"a">> \o ArrayText(<<"{fb2}", "{fb1}">>)
  /\ resp.status = 200
  /\ Len(resp.deck.cards) = 1
  /\ resp.deck.cards[1].front = <<"*", "a">>

\* the reply holds a JSON array somewhere
ContainsArray(reply) ==
  \E a \in 1..Len(reply) : \E b \in a..Len(reply) :
    LET r == json_loads(SubSeq(reply, a, b))
    IN reply[a] = "[" /\ r.ok /\ r.val.t = "arr"

\* the lines of the reply, after the reply's surrounding whitespace is dropped
ReplyLines(reply) == split(strip(reply))

NonEmptyLines(reply) ==
  {k \in 1..Len(ReplyLines(reply)) : ReplyLines(reply)[k] # <<>>}

\* line with surrounding whitespace and leading "- " and "* " markers removed
RECURSIVE StripMarkers(_)
StripMarkers(line) ==
  LET t == strip(line) IN
    IF Len(t) >= 2 /\ t[1] \in {"-", "*"} /\ t[2] = " "
      THEN StripMarkers(SubSeq(t, 3, Len(t)))
      ELSE t

\* line with surrounding whitespace removed, then every leading "-" and " ",
\* then every leading "*" and " "
DropLeading(line) ==
  LET t == strip(line)
      p == CHOOSE i \in 1..(Len(t) + 1) :
             /\ \A j \in 1..(i - 1) : t[j] \in {"-", " "}
             /\ i <= Len(t) => t[i] \notin {"-", " "}
      q == CHOOSE i \in p..(Len(t) + 1) :
             /\ \A j \in p..(i - 1) : t[j] \in {"*", " "}
             /\ i <= Len(t) => t[i] \notin {"*", " "}
  IN SubSeq(t, q, Len(t))

C8_NonArrayJsonSucceeds ==
  LET r == json_loads(resp.reply)
  IN (/\ Served
      /\ resp.request.count >= 1
      /\ r.ok
      /\ \/ r.val.t # "arr"
         \/ \A i \in 1..Len(r.val.items) : r.val.items[i].unit = "{}")
       => /\ resp.status = 200
          /\ \A i \in 1..Len(resp.deck.cards) :
               resp.deck.cards[i].front = <<>> /\ resp.deck.cards[i].back = <<>>

----------------------------------------------------------------------------
(* Properties: export_to_csv, get_all_decks *)

\* cards in the decks before position d
RECURSIVE CardsBefore(_, _)
CardsBefore(decks, d) ==
  IF d <= 1 THEN 0 ELSE CardsBefore(decks, d - 1) + Len(decks[d - 1].cards)

\* C9: a CSV export is one header row and then one row per card, deck by deck
\* and card by card, each repeating the name, topic and language of the card's
\* deck; its row count is 1 plus the sum of the exported decks' card counts.
C9_CsvRowPerCard ==
  (resp.op = "export" /\ resp.status = 200 /\ resp.media_type = "text/csv") =>
    LET decks == resolve_decks(resp.request.deck_ids, storage)
        rows == resp.body
    IN /\ decks # <<>>
       /\ Len(rows) = 1 + CardsBefore(decks, Len(decks) + 1)
       /\ rows[1] = CsvHeader
       /\ \A d \in 1..Len(decks) : \A c \in 1..Len(decks[d].cards) :
            LET row == rows[1 + CardsBefore(decks, d) + c]
            IN /\ row[1] = decks[d].name
               /\ row[2] = decks[d].topic
               /\ row[3] = decks[d].language
               /\ row[4] = decks[d].cards[c].front
               /\ row[5] = decks[d].cards[c].back

\* a CSV export of two different decks, the second one first, four rows
C9_Witness ==
  /\ resp.op = "export"
  /\ resp.status = 200
  /\ resp.media_type = "text/csv"
  /\ resp.request.deck_ids = <<2, 1>>
  /\ Len(resp.body) = 4
  /\ resp.body[2][3] # resp.body[4][3]

\* a and b hold the same decks, each as often
SameDecks(a, b) ==
  /\ Len(a) = Len(b)
  /\ {a[i].id : i \in 1..Len(a)} = {b[i].id : i \in 1..Len(b)}
  /\ \A i \in 1..Len(a) : \E j \in 1..Len(b) : a[i] = b[j]

\* C10: get_all_decks returns every stored deck exactly once and nothing else,
\* whatever the number of stored decks; an export with empty deck_ids exports
\* every stored deck.
C10_ListReturnsAll ==
  /\ resp.op = "get_all_decks" => SameDecks(resp.decks, storage)
  /\ (/\ resp.op = "export"
      /\ resp.status = 200
      /\ resp.request.deck_ids = <<>>
      /\ resp.media_type = "application/json")
       => SameDecks(resp.body.decks, storage)

\* deck_ids names several decks, each once
SeveralIds(deck_ids) ==
  /\ Len(deck_ids) >= 2
  /\ \A i, j \in 1..Len(deck_ids) : deck_ids[i] = deck_ids[j] => i = j

\* C11: when an export request that names several deck ids ends, the decks it
\* exports are what its deck_ids resolved to in one state the collection was in
\* between the start and the end of the request, and so they all were stored
\* together in that state, whatever delete and generate requests ran in between.
C11_ExportIsOneMoment ==
  (/\ req.kind = "export"
   /\ req.pc = "done"
   /\ SeveralIds(req.request.deck_ids))
    => \E m \in req.moments :
         /\ req.decks_data = resolve_decks(req.request.deck_ids, m)
         /\ \A i \in 1..Len(req.decks_data) :
              \E j \in 1..Len(m) : m[j] = req.decks_data[i]

----------------------------------------------------------------------------
(* Properties: generate_flash_cards, outcome *)

\* the step answers 200 and appends the returned deck, under an id no deck
\* stored or deleted before has, to an otherwise unchanged collection
GenerateSucceeds ==
  /\ resp'.status = 200
  /\ resp'.success
  /\ Len(storage') = Len(storage) + 1
  /\ SubSeq(storage', 1, Len(storage)) = storage
  /\ storage'[Len(storage')] = resp'.deck
  /\ resp'.deck.id \notin StoredIds \cup deleted

\* the step answers 500 with the cause in the detail and leaves the collection
\* as it was
GenerateFails ==
  /\ resp'.status = 500
  /\ ~resp'.success
  /\ resp'.detail[1] = "Error generating cards: "
  /\ resp'.detail[2] \in {"llm", "cards", "insert"}
  /\ storage' = storage

\* C12: every generate-cards request ends in exactly one of two ways: a 200
\* that adds exactly one deck with a fresh id and leaves every other stored deck
\* unchanged, or a 500 generation failure carrying the cause (the LLM call, the
\* parsing or the storage insert) that leaves storage unchanged.
C12_GenerateAllOrNothing ==
  [][resp'.op = "generate" => (GenerateSucceeds /\ resp'.status # 500)
                                \/ (GenerateFails /\ resp'.status # 200)]_vars

\* a generate-cards request whose insert_one raised, answered 500, with the deck
\* stored before still the whole collection
C12_Witness ==
  /\ resp.op = "generate"
  /\ resp.status = 500
  /\ resp.detail[2] = "insert"
  /\ Len(storage) = 1
  /\ nextId = 3

====
